---- MODULE Spec2Model ----
(***************************************************************************)
(* Evidence Relevance Correlation Engine of backend/s3.py (RenderS3Client).*)
(*                                                                         *)
(* The model follows one audit (the only one _get_active_ai_audits         *)
(* returns) of one framework.  Scores are relevance scores times 100, so   *)
(* 0.6 is 60 and 0.8 is 80.  Python None is "None" where a string is       *)
(* expected, NoId where an id is expected and NoResult where an analysis   *)
(* is expected.                                                            *)
(*                                                                         *)
(* A correlation run (_analyze_audit_relevance_background) and the manual  *)
(* trigger (trigger_audit_relevance_analysis_for_framework) are split at   *)
(* their calls to the reasoning service; the auto-processing threads they  *)
(* start run at any later moment, each as one step.                        *)
(***************************************************************************)
EXTENDS Integers, Sequences, FiniteSets, TLC

None == "None"
NoId == -1
NoResult == [none |-> TRUE]

\* Python truthiness of an id: neither None nor 0.
Truthy(id) == id # NoId /\ id # 0

\* ---------------------------------------------------------------- bounds

\* Number of correlation runs that may be started.
MaxRuns == 2

\* Number of manual triggers that may be started.
MaxTriggers == 1

\* ------------------------------------------------------ program constants

\* evidence_threshold = 0.6
evidence_threshold == 60

\* checklist_threshold = 0.8
checklist_threshold == 80

\* records[:50] -- "Limit to first 50 per table"; scaled to the size of the
\* tables below so that the cap binds.
RecordCap == 1

\* ------------------------------------------------------------ the world

\* The audit and framework every run works on.
audit_id == 426
framework_id == 1

\* Rows of the compliance table (joined with subpolicies for PolicyId), of
\* every framework: compliances 1 and 2 belong to framework 1, compliance 9
\* to another framework.
compliance ==
    { [ComplianceId |-> 1, SubPolicyId |-> 1, PolicyId |-> 1, FrameworkId |-> 1],
      [ComplianceId |-> 2, SubPolicyId |-> 1, PolicyId |-> 1, FrameworkId |-> 1],
      [ComplianceId |-> 9, SubPolicyId |-> 8, PolicyId |-> 8, FrameworkId |-> 2],
      \* LEFT JOIN subpolicies: compliance 3 names a subpolicy that has no row,
      \* so it has no policy and is in no framework
      [ComplianceId |-> 3, SubPolicyId |-> 5, PolicyId |-> NoId, FrameworkId |-> NoId] }

\* _get_audit_details: the framework's full id sets.
audit_details ==
    [ framework_id |-> framework_id,
      policies     |-> { c.PolicyId     : c \in { x \in compliance : x.FrameworkId = framework_id } },
      subpolicies  |-> { c.SubPolicyId  : c \in { x \in compliance : x.FrameworkId = framework_id } },
      compliances  |-> { c.ComplianceId : c \in { x \in compliance : x.FrameworkId = framework_id } } ]

\* Uploads that can appear in file_operations: 1 and 2 are the same stored
\* object (same s3_key) uploaded twice under different operation ids.
Uploads ==
    << [id |-> 1, s3_key |-> "k1", stored_name |-> "n1"],
       [id |-> 2, s3_key |-> "k1", stored_name |-> "n1"] >>

\* _get_all_database_data: the tables in the order the dict is built, each
\* with its rows (a row is its primary-key value; the last incident has
\* none that _get_db_record_id can resolve).
Tables == <<"compliances", "incidents">>

all_database_data ==
    [ compliances |-> <<1>>, incidents |-> <<1, 2, NoId>> ]

\* What one call of the reasoning service can come back as: NoResult when
\* _call_ollama returns None (timeout, HTTP error), Garbage for a text that
\* holds neither a JSON object nor a relevance_score, BadScore for a JSON
\* object whose relevance_score is not a number, else the JSON object.
Garbage == [garbage |-> TRUE]
BadScore == [bad_score |-> TRUE]

Responses ==
    { NoResult,
      \* below the evidence threshold, mapped to a compliance of the framework
      [relevance_score |-> 59, matched_policies |-> <<1>>, matched_subpolicies |-> <<1>>,
       matched_compliances |-> <<1>>],
      \* exactly the evidence threshold, mapped
      [relevance_score |-> 60, matched_policies |-> <<1>>, matched_subpolicies |-> <<1>>,
       matched_compliances |-> <<1>>],
      \* exactly the checklist threshold, nothing matched
      [relevance_score |-> 80, matched_policies |-> <<>>, matched_subpolicies |-> <<>>,
       matched_compliances |-> <<>>],
      \* exactly the checklist threshold, naming ids of another framework first
      [relevance_score |-> 80, matched_policies |-> <<8, 1>>, matched_subpolicies |-> <<8>>,
       matched_compliances |-> <<9, 1>>] }

\* ------------------------------------------------------------- helpers

\* Python's `a or b` on values that are None or non-empty.
Or(a, b) == IF a # None THEN a ELSE b

\* next((i for i, d in enumerate(seq) if P(d)), None), given the set of the
\* indexes i with P(seq[i]); 0 stands for None.
FirstIndex(matching) ==
    IF matching # {}
    THEN CHOOSE i \in matching : \A j \in matching : i <= j
    ELSE 0

\* seq[:n]
Take(seq, n) == SubSeq(seq, 1, IF Len(seq) < n THEN Len(seq) ELSE n)

Range(seq) == { seq[i] : i \in 1..Len(seq) }

\* max(values) of a non-empty set of numbers
SetMax(S) == CHOOSE m \in S : \A x \in S : x <= m

\* Resolve the primary key of a table's record.  A record of the model is
\* its primary-key value (an int from the store, or NoId when missing).
_get_db_record_id(table_name, record) == record

\* file_key = s3_key or stored_name
content_key(d) == Or(d.s3_key, d.stored_name)

\* ---------------------------------------------------- RelevanceAnalyzer

\* [x for x in matched if x in framework_ids]
FilterIds(matched, framework_ids) == SelectSeq(matched, LAMBDA x : x \in framework_ids)

\* The parse chain both analyzers share: a JSON object (fenced or bare) is
\* taken as it is; otherwise the "markdown" extraction builds an object from
\* whatever keys it finds, with relevance_score 0.0 and empty lists for the
\* keys it does not find.
ParseResponse(result_text) ==
    IF result_text = Garbage
    THEN [ relevance_score |-> 0, matched_policies |-> <<>>, matched_subpolicies |-> <<>>,
           matched_compliances |-> <<>> ]
    ELSE result_text

\* Whether _get_audit_details can read the audit's row, and the ids of the
\* compliance rows that have been deleted from the compliance table.
VARIABLES audit_found, deleted

\* _get_audit_details as the run gets it: the framework's id sets, or {}
\* when the audit's row cannot be read, of which .get('policies', []) and
\* the like are empty.
_get_audit_details ==
    IF audit_found THEN [audit_details EXCEPT !.compliances = @ \ deleted]
    ELSE [ framework_id |-> NoId, policies |-> {}, subpolicies |-> {}, compliances |-> {} ]

\* _analyze_document_audit_relevance, from the response on: no text is no
\* result, otherwise the text is parsed and the three matched lists are
\* filtered to the framework.
_analyze_document_audit_relevance(response) ==
    IF response = NoResult THEN NoResult
    ELSE LET result_json == ParseResponse(response)
         IN  [ relevance_score     |-> result_json.relevance_score,
               matched_policies    |-> FilterIds(result_json.matched_policies, _get_audit_details.policies),
               matched_subpolicies |-> FilterIds(result_json.matched_subpolicies, _get_audit_details.subpolicies),
               matched_compliances |-> FilterIds(result_json.matched_compliances, _get_audit_details.compliances) ]

\* _analyze_database_data_relevance, one record whose response yields an
\* analysis: the parsed response gets record_id (0 when the key does not
\* resolve) and is appended as it is.  (float() of a relevance_score that is
\* not a number raises instead: see AnalyzeDatabaseRecord.)
AnalyzeRecord(table_name, record, response) ==
    IF response = NoResult THEN NoResult
    ELSE LET analysis == ParseResponse(response)
         IN  [ table_name          |-> table_name,
               record_id           |-> IF _get_db_record_id(table_name, record) # NoId
                                       THEN _get_db_record_id(table_name, record) ELSE 0,
               relevance_score     |-> analysis.relevance_score,
               matched_policies    |-> analysis.matched_policies,
               matched_subpolicies |-> analysis.matched_subpolicies,
               matched_compliances |-> analysis.matched_compliances ]

\* --------------------------------------------------- AnalysisIndexStore

\* _load_json_index of a missing file
EmptyDocuments == <<>>
EmptyDatabase == [ t \in Range(Tables) |-> <<>> ]

\* Whether the index files can be written.
VARIABLE index_writable

\* _save_json_index of data over the persisted index: what a later
\* _load_json_index reads.  An exception of makedirs or open is printed and
\* swallowed, and the file stays as it was.
_save_json_index(persisted, data) ==
    IF index_writable THEN data ELSE persisted

\* _update_json_index_document: the new "documents" list.
_update_json_index_document(docs, operation_id, analysis_result, doc_s3_key, doc_stored_name) ==
    LET file_key == Or(doc_s3_key, doc_stored_name)
        by_key   == IF file_key # None
                    THEN FirstIndex({ k \in 1..Len(docs) :
                                      LET d == docs[k] IN d.s3_key = doc_s3_key \/ d.stored_name = doc_stored_name })
                    ELSE 0
        doc_index == IF by_key # 0 THEN by_key
                     ELSE FirstIndex({ k \in 1..Len(docs) :
                                       LET d == docs[k] IN d.operation_id = operation_id })
        doc_entry == [ operation_id        |-> operation_id,
                       s3_key              |-> doc_s3_key,
                       stored_name         |-> doc_stored_name,
                       relevance_score     |-> analysis_result.relevance_score,
                       matched_policies    |-> analysis_result.matched_policies,
                       matched_subpolicies |-> analysis_result.matched_subpolicies,
                       matched_compliances |-> analysis_result.matched_compliances ]
    IN  IF doc_index # 0 THEN [docs EXCEPT ![doc_index] = doc_entry]
        ELSE Append(docs, doc_entry)

\* _update_json_index_database: the new "database_data" dict.
_update_json_index_database(db, table_name, record_id, analysis_result) ==
    LET record_index == FirstIndex({ k \in 1..Len(db[table_name]) :
                                     LET r == db[table_name][k] IN r.record_id = record_id })
        record_entry == [ table_name          |-> table_name,
                          record_id           |-> record_id,
                          relevance_score     |-> analysis_result.relevance_score,
                          matched_policies    |-> analysis_result.matched_policies,
                          matched_subpolicies |-> analysis_result.matched_subpolicies,
                          matched_compliances |-> analysis_result.matched_compliances ]
    IN  IF record_index # 0
        THEN [db EXCEPT ![table_name][record_index] = record_entry]
        ELSE [db EXCEPT ![table_name] = Append(@, record_entry)]

\* The index updates of a whole list of analyses, in order
\* (for table_name, analyses in db_results.items(): ... if record_id: update).
RECURSIVE UpdateDatabaseIndex(_, _)
UpdateDatabaseIndex(db, analyses) ==
    IF analyses = <<>> THEN db
    ELSE LET a == Head(analyses)
         IN  UpdateDatabaseIndex(
                 IF Truthy(a.record_id)
                 THEN _save_json_index(db, _update_json_index_database(db, a.table_name,
                                                                        a.record_id, a))
                 ELSE db,
                 Tail(analyses))

\* analyzed_file_keys / analyzed_operation_ids built from the loaded index
analyzed_file_keys(docs_idx) ==
    { content_key(docs_idx[i]) : i \in 1..Len(docs_idx) } \ { None }

analyzed_operation_ids(docs_idx) ==
    { docs_idx[i].operation_id : i \in 1..Len(docs_idx) }

\* already_analyzed_db[t]
seen_ids(db_idx, t) == { db_idx[t][i].record_id : i \in 1..Len(db_idx[t]) }

\* --------------------------------------------------- EvidenceSynthesizer

\* external_id values of ai_audit_data are pairs of strings: str(operation_id)
\* and file keys are <<"", text>>, f"{table_name}:{record_id}" is
\* <<table_name, str(record_id)>>.
Plain(text) == <<"", text>>
RecordKey(table_name, record_id) == <<table_name, ToString(record_id)>>

\* SELECT ... FROM compliance c LEFT JOIN subpolicies sp ... WHERE
\* c.ComplianceId = comp_id: the row, or NoResult.
ComplianceRow(comp_id) ==
    IF comp_id \notin deleted /\ \E c \in compliance : c.ComplianceId = comp_id
    THEN CHOOSE c \in compliance : c.ComplianceId = comp_id
    ELSE NoResult

\* comp_id of _create_ai_evidence_from_database_results: the record's own id
\* for the compliances table, else the first usable entry of
\* matched_compliances; NoId when there is none.
ResolveCompId(table_name, record_id, matched_compliances) ==
    IF table_name = "compliances" /\ Truthy(record_id) THEN record_id
    ELSE LET i == FirstIndex({ k \in 1..Len(matched_compliances) :
                               LET mc == matched_compliances[k] IN Truthy(mc) })
         IN  IF i # 0 THEN matched_compliances[i] ELSE NoId

\* The value of Complied that stands for full compliance.
complied_value_full == "2"

\* complied_value = '1': "mark as partially compliant based on DB evidence".
complied_value == "1"

\* One analysis of db_results in _create_ai_evidence_from_database_results:
\* st = [rows, checklist] before, the result after.
SynthesizeRecord(st, analysis) ==
    LET score     == analysis.relevance_score
        record_id == analysis.record_id
        comp_id   == ResolveCompId(analysis.table_name, record_id, analysis.matched_compliances)
        comp_row  == IF Truthy(comp_id) THEN ComplianceRow(comp_id) ELSE NoResult
        external_id == RecordKey(analysis.table_name, record_id)
        existing  == { r \in st.rows : r.external_source = "database_record"
                                       /\ r.external_id = external_id }
        new_row   == [ id                    |-> Cardinality(st.rows) + 1,
                       external_source       |-> "database_record",
                       external_id           |-> external_id,
                       policy_id             |-> comp_row.PolicyId,
                       subpolicy_id          |-> comp_row.SubPolicyId,
                       mapping_compliance_id |-> comp_row.ComplianceId,
                       ai_processing_status  |-> "completed",
                       relevance_score       |-> score,
                       matched_compliances   |-> analysis.matched_compliances ]
        key(e)    == <<e.ComplianceId, e.SubPolicyId, e.PolicyId, e.FrameworkId>>
        new_key   == <<comp_row.ComplianceId, comp_row.SubPolicyId, comp_row.PolicyId, framework_id>>
        present   == { e \in st.checklist : key(e) = new_key }
        comments  == RecordKey(analysis.table_name, record_id)
        checklist_after ==
            IF score < checklist_threshold THEN st.checklist
            ELSE IF present # {}
            THEN { IF key(e) = new_key
                   THEN [e EXCEPT !.Count = @ + 1, !.Complied = complied_value, !.Comments = comments]
                   ELSE e : e \in st.checklist }
            ELSE st.checklist \cup
                 { [ ComplianceId |-> comp_row.ComplianceId,
                     SubPolicyId  |-> comp_row.SubPolicyId,
                     PolicyId     |-> comp_row.PolicyId,
                     FrameworkId  |-> framework_id,
                     Complied     |-> complied_value,
                     Comments     |-> comments,
                     Count        |-> 1 ] }
    IN  IF ~Truthy(record_id) \/ score < evidence_threshold THEN st
        ELSE IF comp_row = NoResult THEN st
        ELSE IF existing # {}
        THEN [st EXCEPT !.rows =
                { IF r \in existing /\ (~Truthy(r.policy_id) \/ ~Truthy(r.subpolicy_id))
                  THEN [r EXCEPT !.policy_id = comp_row.PolicyId,
                                 !.subpolicy_id = comp_row.SubPolicyId]
                  ELSE r : r \in st.rows }]
        ELSE [rows |-> st.rows \cup {new_row}, checklist |-> checklist_after]

\* for table_name, analyses in db_results.items(): for analysis in analyses
RECURSIVE SynthesizeAll(_, _)
SynthesizeAll(st, analyses) ==
    IF analyses = <<>> THEN st
    ELSE SynthesizeAll(SynthesizeRecord(st, Head(analyses)), Tail(analyses))

\* db_results.items() flattened: the tables in order, each with its analyses.
RECURSIVE Flatten(_, _)
Flatten(db, tables) ==
    IF tables = <<>> THEN <<>>
    ELSE db[Head(tables)] \o Flatten(db, Tail(tables))

\* ------------------------------------------------- auto-processing thread

\* SELECT ... FROM file_operations WHERE id = %s AND status = 'completed'
FileOp(file_ops, operation_id) ==
    LET i == FirstIndex({ k \in 1..Len(file_ops) : LET f == file_ops[k] IN f.id = operation_id })
    IN  IF i # 0 THEN file_ops[i] ELSE NoResult

\* STEP 1-3 of _auto_process_relevant_document: the documents to process,
\* as (operation_id, matched_compliances) pairs; relevance_score rides along
\* to tell which verdict a row comes from.
all_relevant_documents_to_process(docs, operation_id, relevance_result) ==
    LET relevant  == SelectSeq(docs, LAMBDA d : d.matched_compliances # <<>>
                                                /\ Truthy(d.operation_id))
        from_json == [ i \in 1..Len(relevant) |->
                         [ operation_id        |-> relevant[i].operation_id,
                           matched_compliances |-> relevant[i].matched_compliances,
                           relevance_score     |-> relevant[i].relevance_score ] ]
        uploaded  == [ operation_id        |-> operation_id,
                       matched_compliances |-> relevance_result.matched_compliances,
                       relevance_score     |-> relevance_result.relevance_score ]
    IN  IF \E i \in 1..Len(from_json) : from_json[i].operation_id = operation_id
        THEN from_json
        ELSE Append(from_json, uploaded)

\* mappings_to_create: one per matched compliance, else (matched policies
\* and subpolicies are looked up from the matched compliances, so they are
\* empty too) a single unmapped entry.
mappings_to_create(matched_compliances) ==
    IF matched_compliances # <<>>
    THEN [ i \in 1..Len(matched_compliances) |->
             LET comp_info == ComplianceRow(matched_compliances[i])
             IN  [ policy_id     |-> IF comp_info # NoResult THEN comp_info.PolicyId ELSE NoId,
                   subpolicy_id  |-> IF comp_info # NoResult THEN comp_info.SubPolicyId ELSE NoId,
                   compliance_id |-> matched_compliances[i] ] ]
    ELSE << [ policy_id |-> NoId, subpolicy_id |-> NoId, compliance_id |-> NoId ] >>

\* The duplicate check: rows of this audit that already stand for the document.
existing_count(rows, doc_operation_id, file_op) ==
    LET external_id == Plain(ToString(doc_operation_id))
        compact_external_id ==
            IF Or(file_op.s3_key, file_op.stored_name) # None
            THEN Plain(Or(file_op.s3_key, file_op.stored_name))
            ELSE external_id
        stored == IF file_op.stored_name # None THEN Plain(file_op.stored_name) ELSE Plain("")
    IN  Cardinality({ r \in rows : r.external_source = "evidence_attachment"
                                   /\ r.external_id \in {external_id, compact_external_id, stored}
                                   /\ r.ai_processing_status # "failed" })

\* The rows inserted for one document: one per mapping.
InsertedRows(rows, item) ==
    LET mappings == mappings_to_create(item.matched_compliances)
    IN  { [ id                    |-> Cardinality(rows) + i,
            external_source       |-> "evidence_attachment",
            external_id           |-> Plain(ToString(item.operation_id)),
            policy_id             |-> mappings[i].policy_id,
            subpolicy_id          |-> mappings[i].subpolicy_id,
            mapping_compliance_id |-> mappings[i].compliance_id,
            ai_processing_status  |-> "pending",
            relevance_score       |-> item.relevance_score,
            matched_compliances   |-> item.matched_compliances ]
          : i \in 1..Len(mappings) }

\* One document of the processing loop: st = [rows, processed, created].
ProcessDocument(st, file_ops, item) ==
    LET file_op  == FileOp(file_ops, item.operation_id)
        new_rows == InsertedRows(st.rows, item)
    IN  IF item.operation_id \in st.processed THEN st
        ELSE IF file_op = NoResult THEN st
        ELSE IF existing_count(st.rows, item.operation_id, file_op) > 0
        THEN [st EXCEPT !.processed = @ \cup {item.operation_id}]
        ELSE [ rows      |-> st.rows \cup new_rows,
               processed |-> st.processed \cup {item.operation_id},
               created   |-> st.created \cup { r.id : r \in new_rows } ]

RECURSIVE ProcessDocuments(_, _, _)
ProcessDocuments(st, file_ops, items) ==
    IF items = <<>> THEN st
    ELSE ProcessDocuments(ProcessDocument(st, file_ops, Head(items)), file_ops, Tail(items))

\* ------------------------------------------------ CorrelationOrchestrator

\* The cache check of the document loop: already analyzed by file key, or
\* (fallback) by operation id.  The manual trigger has no such check.
Skipped(run_kind, docs_idx, doc) ==
    /\ run_kind = "background"
    /\ \/ content_key(doc) # None /\ content_key(doc) \in analyzed_file_keys(docs_idx)
       \/ doc.id \in analyzed_operation_ids(docs_idx)

\* A choice of records that would not look at the index: the first records
\* of the table in every run.
RecordsToAnalyze_Unfiltered(run_kind, db_idx, table_name) ==
    Take(all_database_data[table_name], RecordCap)

\* The records of one table handed to the reasoning service in one run: for
\* a correlation run the ones with a key that the loaded index does not hold,
\* for the manual trigger all of them; records[:50] of that.
RecordsToAnalyze(run_kind, db_idx, table_name) ==
    LET records == all_database_data[table_name]
        new_records ==
            IF run_kind = "background"
            THEN SelectSeq(records, LAMBDA record :
                     /\ _get_db_record_id(table_name, record) # NoId
                     /\ _get_db_record_id(table_name, record) \notin seen_ids(db_idx, table_name))
            ELSE records
    IN  Take(new_records, RecordCap)

RECURSIVE Plan(_, _, _)
Plan(run_kind, db_idx, tables) ==
    IF tables = <<>> THEN <<>>
    ELSE LET t == Head(tables)
             records == RecordsToAnalyze(run_kind, db_idx, t)
         IN  [ i \in 1..Len(records) |-> [table_name |-> t, record |-> records[i]] ]
             \o Plan(run_kind, db_idx, Tail(tables))

\* overall_score = max(all_doc_scores + all_db_scores), 0 when there is none
OverallScore(docs_idx, full_db) ==
    LET all_scores == { docs_idx[i].relevance_score : i \in 1..Len(docs_idx) }
                      \cup { a.relevance_score : a \in Range(Flatten(full_db, Tables)) }
    IN  IF all_scores = {} THEN 0 ELSE SetMax(all_scores)

\* has_document_evidence / has_database_evidence
has_document_evidence(docs_idx) == Len(docs_idx) > 0
has_database_evidence(full_db) == Len(Flatten(full_db, Tables)) > 0

\* The branch taken after "Determine what evidence exists"; "none" when
\* overall_score < 0.6 and nothing is triggered.
Classify(overall, docs_idx, full_db) ==
    IF overall < evidence_threshold THEN "none"
    ELSE IF has_document_evidence(docs_idx) /\ has_database_evidence(full_db) THEN "combined"
    ELSE IF has_document_evidence(docs_idx) THEN "document_only"
    ELSE IF has_database_evidence(full_db) THEN "database_only"
    ELSE "none"

\* best_doc = max(documents, key=relevance_score, default=None): the first
\* entry with the largest score; 0 when the list is empty.
best_doc(docs_idx) ==
    FirstIndex({ k \in 1..Len(docs_idx) :
                 LET d == docs_idx[k] IN \A j \in 1..Len(docs_idx) : docs_idx[j].relevance_score <= d.relevance_score })

\* The thread started for a document: target _auto_process_relevant_document
\* with (operation_id, audit_id, relevance_result).
Thread(operation_id, result) ==
    [ operation_id     |-> operation_id,
      relevance_result |-> [ relevance_score     |-> result.relevance_score,
                             matched_compliances |-> result.matched_compliances ] ]

\* _store_audit_relevance on document_audit_relevance (the file operations
\* holding a relevance row of this audit): the row of the newest other
\* upload of the same file is moved to this operation, else a row is
\* inserted (ON DUPLICATE KEY UPDATE).
StoreRelevanceRow(relevance_rows, file_ops, operation_id, doc_s3_key, doc_stored_name) ==
    LET own   == FileOp(file_ops, operation_id)
        file_s3_key      == Or(doc_s3_key, IF own # NoResult THEN own.s3_key ELSE None)
        file_stored_name == Or(doc_stored_name, IF own # NoResult THEN own.stored_name ELSE None)
        other == IF file_s3_key # None
                 THEN FirstIndex({ k \in 1..Len(file_ops) :
                                   LET f == file_ops[k] IN f.id # operation_id /\ (f.s3_key = file_s3_key \/ f.stored_name = file_s3_key) })
                 ELSE IF file_stored_name # None
                 THEN FirstIndex({ k \in 1..Len(file_ops) :
                                   LET f == file_ops[k] IN f.id # operation_id /\ f.stored_name = file_stored_name })
                 ELSE 0
    IN  IF other # 0 /\ file_ops[other].id \in relevance_rows
        THEN (relevance_rows \ {file_ops[other].id}) \cup {operation_id}
        ELSE relevance_rows \cup {operation_id}

\* ---------------------------------------------------------------- state

VARIABLES
    uploads,                    \* the uploads still to come, in order
    file_operations,            \* completed uploads of the framework, newest first
    documents,                  \* documents_analysis.json: the "documents" list
    database_data,              \* database_analysis.json: "database_data"
    ai_audit_data,              \* EvidenceRecords of the audit
    lastchecklistitemverified,  \* ChecklistEntries
    document_audit_relevance,   \* file operations with a stored relevance row
    threads,                    \* auto-processing threads started, not yet run
    checks,                     \* ai_audit_data ids a compliance check was started for
    pc,                         \* where the run is: idle, analyze, synthesize, aggregate
    kind,                       \* background run or manual trigger (of the last run when idle)
    all_documents,              \* the run's list of documents
    docs_index,                 \* the run's loaded documents index
    doc_pos,                    \* position of the document loop in all_documents
    todo,                       \* records still to hand to the reasoning service
    db_results,                 \* analyses returned by _analyze_database_data_relevance
    full_db_results,            \* the database index as reloaded after the updates
    overall_score,              \* overall_score of the last aggregation
    classification,             \* branch taken by the last aggregation
    runs,                       \* correlation runs started so far
    triggers,                   \* manual triggers started so far
    calls,                      \* history: evidence handed to the reasoning service in this run
    unanalyzed,                 \* history: evidence whose call in this run gave no usable answer
    at_start,                   \* history: index and number of rows when this run started
    changed,                    \* history: an upload happened since the last run started
    rerun,                      \* history: this run repeats a finished run, whose every call of
                                \* the reasoning service gave a verdict, on the same evidence
    dispatched,                 \* history: operation ids this run started a thread for
    aggregated,                 \* history: this run has computed overall_score
    writers,                    \* calls of _update_json_index_document between load and save
    inflight,                   \* auto-processing threads that are running
    other_audit                 \* a second audit of the framework: its database index, its
                                \* ai_audit_data rows, the runs made for it and, as history,
                                \* the keys of the checklist entries its runs wrote

store == <<uploads, file_operations, documents, database_data, ai_audit_data,
           lastchecklistitemverified, document_audit_relevance, threads, checks>>
local == <<pc, kind, all_documents, docs_index, doc_pos, todo, db_results,
           full_db_results, overall_score, classification>>
history == <<runs, triggers, calls, unanalyzed, at_start, changed, rerun, dispatched, aggregated>>
workers == <<writers, inflight>>
environment == <<audit_found, index_writable, deleted, other_audit>>
vars == <<store, local, history, workers, environment>>

\* Identity of a piece of evidence: content key of a document (its operation
\* id when it has none), table and key of a record.
DocumentIdentity(key, operation_id) ==
    IF key # None THEN <<"document", key>> ELSE <<"operation", ToString(operation_id)>>
RecordIdentity(table_name, record_id) == <<table_name, ToString(record_id)>>

IndexIdentities(docs, db) ==
    { DocumentIdentity(content_key(docs[i]), docs[i].operation_id) : i \in 1..Len(docs) }
    \cup { RecordIdentity(a.table_name, a.record_id) : a \in Range(Flatten(db, Tables)) }

\* No record analyzed, nothing stored yet, no run started.
NoRunYet ==
    /\ database_data = EmptyDatabase
    /\ ai_audit_data = {}
    /\ lastchecklistitemverified = {}
    /\ document_audit_relevance = {}
    /\ threads = {}
    /\ checks = {}
    /\ pc = "idle"
    /\ kind = "none"
    /\ all_documents = <<>>
    /\ docs_index = EmptyDocuments
    /\ doc_pos = 1
    /\ todo = <<>>
    /\ db_results = <<>>
    /\ full_db_results = EmptyDatabase
    /\ overall_score = 0
    /\ classification = "none"
    /\ runs = 0
    /\ triggers = 0
    /\ calls = {}
    /\ unanalyzed = {}
    /\ at_start = [documents |-> EmptyDocuments, database_data |-> EmptyDatabase, rows |-> 0]
    /\ changed = FALSE
    /\ rerun = FALSE
    /\ dispatched = {}
    /\ aggregated = FALSE
    /\ writers = {}
    /\ inflight = {}
    /\ audit_found = TRUE
    /\ index_writable = TRUE
    /\ deleted = {}
    /\ other_audit = [ runs |-> 0, database_data |-> EmptyDatabase, ai_audit_data |-> {},
                       wrote |-> {} ]

\* Nothing uploaded, analyzed or stored yet, no run started.
Empty ==
    /\ file_operations = <<>>
    /\ documents = EmptyDocuments
    /\ NoRunYet

Init ==
    /\ uploads = Uploads
    /\ Empty

\* -------------------------------------------------------------- actions

\* A file is uploaded and its processing completes: a new file_operations
\* row (the list is read newest first).
Upload ==
    /\ pc = "idle"
    /\ uploads # <<>>
    /\ uploads' = Tail(uploads)
    /\ file_operations' = <<Head(uploads)>> \o file_operations
    /\ changed' = TRUE
    /\ UNCHANGED <<documents, database_data, ai_audit_data, lastchecklistitemverified,
                   document_audit_relevance, threads, checks>>
    /\ UNCHANGED local
    /\ UNCHANGED <<runs, triggers, calls, unanalyzed, at_start, rerun, dispatched, aggregated>>
    /\ UNCHANGED workers
    /\ UNCHANGED environment

\* _analyze_audit_relevance_background / trigger_audit_relevance_analysis_
\* for_framework up to the first call of the reasoning service: the audit,
\* all documents and all database data are fetched; the correlation run also
\* loads both indexes, from which its incremental list of records follows.
StartRun(run_kind) ==
    /\ pc = "idle"
    /\ IF run_kind = "background" THEN runs < MaxRuns ELSE triggers < MaxTriggers
    /\ pc' = "analyze"
    /\ kind' = run_kind
    /\ all_documents' = file_operations
    /\ docs_index' = IF run_kind = "background" THEN documents ELSE EmptyDocuments
    /\ doc_pos' = 1
    /\ todo' = Plan(run_kind, database_data, Tables)
    /\ db_results' = <<>>
    /\ full_db_results' = EmptyDatabase
    /\ overall_score' = 0
    /\ classification' = "none"
    /\ runs' = IF run_kind = "background" THEN runs + 1 ELSE runs
    /\ triggers' = IF run_kind = "background" THEN triggers ELSE triggers + 1
    /\ calls' = {}
    /\ unanalyzed' = {}
    /\ at_start' = [documents |-> documents, database_data |-> database_data,
                    rows |-> Cardinality(ai_audit_data)]
    /\ changed' = FALSE
    /\ rerun' = /\ run_kind = "background" /\ kind = "background"
                 /\ ~changed /\ threads = {}
                 /\ calls \subseteq IndexIdentities(documents, database_data)
    /\ dispatched' = {}
    /\ aggregated' = FALSE
    /\ UNCHANGED store
    /\ UNCHANGED workers
    /\ UNCHANGED environment

\* One iteration of the document loop: skip, or call the reasoning service,
\* update the documents index and, at 0.6 or more, _store_audit_relevance,
\* which starts an auto-processing thread.  responses is what the reasoning
\* service may answer for a document.
AnalyzeDocument(responses) ==
    /\ pc = "analyze"
    /\ doc_pos <= Len(all_documents)
    /\ doc_pos' = doc_pos + 1
    /\ LET doc == all_documents[doc_pos]
       IN  IF Skipped(kind, docs_index, doc)
           THEN UNCHANGED <<documents, document_audit_relevance, threads, calls, unanalyzed,
                            dispatched>>
           ELSE \E response \in responses :
                LET relevance_result == _analyze_document_audit_relevance(response)
                    stored == /\ relevance_result # NoResult
                              /\ relevance_result.relevance_score >= evidence_threshold
                IN  /\ calls' = calls \cup {DocumentIdentity(content_key(doc), doc.id)}
                    /\ unanalyzed' =
                         IF response \in {NoResult, Garbage}
                         THEN unanalyzed \cup {DocumentIdentity(content_key(doc), doc.id)}
                         ELSE unanalyzed \ {DocumentIdentity(content_key(doc), doc.id)}
                    /\ documents' =
                         IF relevance_result # NoResult
                         THEN _save_json_index(documents,
                                  _update_json_index_document(documents, doc.id, relevance_result,
                                                              doc.s3_key, doc.stored_name))
                         ELSE documents
                    /\ document_audit_relevance' =
                         IF stored
                         THEN StoreRelevanceRow(document_audit_relevance, file_operations,
                                                doc.id, doc.s3_key, doc.stored_name)
                         ELSE document_audit_relevance
                    /\ threads' = IF stored
                                  THEN threads \cup {Thread(doc.id, relevance_result)}
                                  ELSE threads
                    /\ dispatched' = IF stored THEN dispatched \cup {doc.id} ELSE dispatched
    /\ UNCHANGED <<uploads, file_operations, database_data, ai_audit_data,
                   lastchecklistitemverified, checks>>
    /\ UNCHANGED <<pc, kind, all_documents, docs_index, todo, db_results,
                   full_db_results, overall_score, classification>>
    /\ UNCHANGED <<runs, triggers, at_start, changed, rerun, aggregated>>
    /\ UNCHANGED workers
    /\ UNCHANGED environment

\* One iteration of the record loop of _analyze_database_data_relevance;
\* responses is what the reasoning service may answer for a record.  An
\* exception in the iteration (here float() of a relevance_score that is not
\* a number) is printed and raised again, by the loop and by the audit loop
\* of the caller: the run ends there, the analyses it had collected are
\* dropped and the records after this one stay in todo.
AnalyzeDatabaseRecord(responses) ==
    /\ pc = "analyze"
    /\ doc_pos > Len(all_documents)
    /\ todo # <<>>
    /\ \E response \in responses :
         /\ calls' = calls \cup {RecordIdentity(Head(todo).table_name, Head(todo).record)}
         /\ unanalyzed' =
              IF response \in {NoResult, Garbage, BadScore}
              THEN unanalyzed \cup {RecordIdentity(Head(todo).table_name, Head(todo).record)}
              ELSE unanalyzed \ {RecordIdentity(Head(todo).table_name, Head(todo).record)}
         /\ IF response = BadScore
            THEN /\ pc' = "idle"
                 /\ db_results' = <<>>
                 /\ todo' = Tail(todo)
            ELSE LET analysis == AnalyzeRecord(Head(todo).table_name, Head(todo).record, response)
                 IN  /\ pc' = pc
                     /\ db_results' = IF analysis # NoResult THEN Append(db_results, analysis)
                                      ELSE db_results
                     /\ todo' = Tail(todo)
    /\ UNCHANGED store
    /\ UNCHANGED <<kind, all_documents, docs_index, doc_pos,
                   full_db_results, overall_score, classification>>
    /\ UNCHANGED <<runs, triggers, at_start, changed, rerun, dispatched, aggregated>>
    /\ UNCHANGED workers
    /\ UNCHANGED environment

\* The database index is updated with the new analyses; the correlation run
\* then reloads it, the manual trigger is finished.
UpdateIndex ==
    /\ pc = "analyze"
    /\ doc_pos > Len(all_documents)
    /\ todo = <<>>
    /\ database_data' = UpdateDatabaseIndex(database_data, db_results)
    /\ db_results' = <<>>
    /\ full_db_results' = IF kind = "background" THEN database_data' ELSE EmptyDatabase
    /\ pc' = IF kind = "background" THEN "synthesize" ELSE "idle"
    /\ UNCHANGED <<uploads, file_operations, documents, ai_audit_data, lastchecklistitemverified,
                   document_audit_relevance, threads, checks>>
    /\ UNCHANGED <<kind, all_documents, docs_index, doc_pos, todo,
                   overall_score, classification>>
    /\ UNCHANGED history
    /\ UNCHANGED workers
    /\ UNCHANGED environment

\* _create_ai_evidence_from_database_results on the reloaded index.
Synthesize ==
    /\ pc = "synthesize"
    /\ LET st == SynthesizeAll([rows |-> ai_audit_data, checklist |-> lastchecklistitemverified],
                               Flatten(full_db_results, Tables))
       IN  /\ ai_audit_data' = st.rows
           /\ lastchecklistitemverified' = st.checklist
    /\ pc' = "aggregate"
    /\ UNCHANGED <<uploads, file_operations, documents, database_data,
                   document_audit_relevance, threads, checks>>
    /\ UNCHANGED <<kind, all_documents, docs_index, doc_pos, todo, db_results,
                   full_db_results, overall_score, classification>>
    /\ UNCHANGED history
    /\ UNCHANGED workers
    /\ UNCHANGED environment

\* "Determine overall relevance" to the end of the audit's iteration: the
\* score, the evidence kinds, and the thread for the best document.
Aggregate ==
    /\ pc = "aggregate"
    /\ LET overall == OverallScore(docs_index, full_db_results)
           class   == Classify(overall, docs_index, full_db_results)
           best    == best_doc(docs_index)
           starts  == class \in {"combined", "document_only"} /\ best # 0
       IN  /\ overall_score' = overall
           /\ classification' = class
           /\ threads' = IF starts
                         THEN threads \cup {Thread(docs_index[best].operation_id, docs_index[best])}
                         ELSE threads
           /\ dispatched' = IF starts THEN dispatched \cup {docs_index[best].operation_id}
                            ELSE dispatched
    /\ aggregated' = TRUE
    /\ pc' = "idle"
    /\ full_db_results' = EmptyDatabase
    /\ UNCHANGED <<uploads, file_operations, documents, database_data, ai_audit_data,
                   lastchecklistitemverified, document_audit_relevance, checks>>
    /\ UNCHANGED <<kind, all_documents, docs_index, doc_pos, todo, db_results>>
    /\ UNCHANGED <<runs, triggers, calls, unanalyzed, at_start, changed, rerun>>
    /\ UNCHANGED workers
    /\ UNCHANGED environment

\* An auto-processing thread that would also record the compliance of the
\* rows it creates in the checklist.
AutoProcess_Checklist(t) ==
    /\ t \in threads
    /\ threads' = threads \ {t}
    /\ LET items == all_relevant_documents_to_process(documents, t.operation_id,
                                                      t.relevance_result)
           st == ProcessDocuments([rows |-> ai_audit_data, processed |-> {}, created |-> {}],
                                  file_operations, items)
       IN  /\ ai_audit_data' = st.rows
           /\ checks' = checks \cup st.created
           /\ lastchecklistitemverified' = lastchecklistitemverified \cup
                { [ ComplianceId |-> ComplianceRow(r.mapping_compliance_id).ComplianceId,
                    SubPolicyId  |-> ComplianceRow(r.mapping_compliance_id).SubPolicyId,
                    PolicyId     |-> ComplianceRow(r.mapping_compliance_id).PolicyId,
                    FrameworkId  |-> framework_id,
                    Complied     |-> complied_value,
                    Comments     |-> r.external_id,
                    Count        |-> 1 ] :
                  r \in { x \in st.rows \ ai_audit_data :
                          /\ Truthy(x.mapping_compliance_id)
                          /\ x.relevance_score >= checklist_threshold } }
    /\ UNCHANGED <<uploads, file_operations, documents, database_data,
                   document_audit_relevance>>
    /\ UNCHANGED local
    /\ UNCHANGED history
    /\ UNCHANGED workers
    /\ UNCHANGED environment

\* One auto-processing thread runs: _auto_process_relevant_document.
AutoProcess(t) ==
    /\ t \in threads
    /\ threads' = threads \ {t}
    /\ LET items == all_relevant_documents_to_process(documents, t.operation_id,
                                                      t.relevance_result)
           st == ProcessDocuments([rows |-> ai_audit_data, processed |-> {}, created |-> {}],
                                  file_operations, items)
       IN  /\ ai_audit_data' = st.rows
           /\ checks' = checks \cup st.created
    /\ UNCHANGED <<uploads, file_operations, documents, database_data,
                   lastchecklistitemverified, document_audit_relevance>>
    /\ UNCHANGED local
    /\ UNCHANGED history
    /\ UNCHANGED workers
    /\ UNCHANGED environment

\* The engine as the upload pipeline drives it: correlation runs only.
Next ==
    \/ Upload
    \/ StartRun("background")
    \/ AnalyzeDocument(Responses)
    \/ AnalyzeDatabaseRecord(Responses)
    \/ UpdateIndex
    \/ Synthesize
    \/ Aggregate
    \/ \E t \in threads : AutoProcess(t)

Spec == Init /\ [][Next]_vars

\* The engine with the manual trigger in use as well, with a single upload.
InitTrigger ==
    /\ uploads = SubSeq(Uploads, 1, 1)
    /\ Empty

NextTrigger ==
    \/ Next
    \/ StartRun("trigger")

SpecTrigger == InitTrigger /\ [][NextTrigger]_vars

\* The engine on one upload, with the answers of the reasoning service that
\* the analyzers treat apart: no answer, an answer that cannot be parsed, a
\* score that is not a number (records), a document verdict of 0.7 for one
\* or for two compliances, a record verdict of 0.75.
DocumentResponses ==
    { NoResult, Garbage,
      [ relevance_score |-> 70, matched_policies |-> <<1>>, matched_subpolicies |-> <<1>>,
        matched_compliances |-> <<1>> ],
      [ relevance_score |-> 70, matched_policies |-> <<1>>, matched_subpolicies |-> <<1>>,
        matched_compliances |-> <<1, 2>> ] }

RecordResponses ==
    { NoResult, Garbage, BadScore,
      [ relevance_score |-> 75, matched_policies |-> <<1>>, matched_subpolicies |-> <<1>>,
        matched_compliances |-> <<1>> ] }

NextCases ==
    \/ Upload
    \/ StartRun("background")
    \/ AnalyzeDocument(DocumentResponses)
    \/ AnalyzeDatabaseRecord(RecordResponses)
    \/ UpdateIndex
    \/ Synthesize
    \/ Aggregate
    \/ \E t \in threads : AutoProcess(t)

SpecCases == InitTrigger /\ [][NextCases]_vars

\* The engine on two different files whose file_operations rows agree in one
\* of the two columns the index matches on: the same stored_name under two
\* s3 keys, or no s3_key and two stored names.
KeyUploads ==
    { << [id |-> 1, s3_key |-> "k1", stored_name |-> "n1"],
         [id |-> 2, s3_key |-> "k2", stored_name |-> "n1"] >>,
      << [id |-> 1, s3_key |-> None, stored_name |-> "n1"],
         [id |-> 2, s3_key |-> None, stored_name |-> "n2"] >> }

InitKeys ==
    /\ uploads \in KeyUploads
    /\ Empty

SpecKeys == InitKeys /\ [][NextCases]_vars

\* ------------------------------------------------- concurrent index writers

\* Three different files: each upload starts its own analysis thread, and the
\* threads of one audit write the same documents_analysis.json.
DifferentUploads ==
    << [id |-> 1, s3_key |-> "k1", stored_name |-> "n1"],
       [id |-> 2, s3_key |-> "k2", stored_name |-> "n2"],
       [id |-> 3, s3_key |-> "k3", stored_name |-> "n3"] >>

\* _update_json_index_document up to data = self._load_json_index(file_path):
\* a thread that has a verdict for doc reads the index file.
UpsertLoad(doc, response) ==
    /\ \A w \in writers : w.operation_id # doc.id
    /\ writers' = writers \cup
         { [ operation_id    |-> doc.id,
             doc_s3_key      |-> doc.s3_key,
             doc_stored_name |-> doc.stored_name,
             analysis_result |-> _analyze_document_audit_relevance(response),
             data            |-> documents,
             saved           |-> FALSE ] }
    /\ UNCHANGED <<store, local, history, inflight>>
    /\ UNCHANGED environment

\* _update_json_index_document from there to self._save_json_index: the
\* entry is replaced or appended in the data that was read, and the file is
\* written over with it.
UpsertSave(w) ==
    /\ w \in writers
    /\ ~w.saved
    /\ documents' = _save_json_index(documents,
                        _update_json_index_document(w.data, w.operation_id, w.analysis_result,
                                                    w.doc_s3_key, w.doc_stored_name))
    /\ writers' = (writers \ {w}) \cup {[w EXCEPT !.saved = TRUE]}
    /\ UNCHANGED <<uploads, file_operations, database_data, ai_audit_data,
                   lastchecklistitemverified, document_audit_relevance, threads, checks>>
    /\ UNCHANGED <<local, history, inflight>>
    /\ UNCHANGED environment

InitWriters ==
    /\ uploads = DifferentUploads
    /\ Empty

NextWriters ==
    \/ Upload
    \/ \E i \in 1..Len(file_operations), response \in DocumentResponses \ {NoResult} :
         UpsertLoad(file_operations[i], response)
    \/ \E w \in writers : UpsertSave(w)

SpecWriters == InitWriters /\ [][NextWriters]_vars

\* --------------------------------------- concurrent auto-processing threads

\* Auto-processing threads that get to run.
MaxThreads == 2

\* _auto_process_relevant_document starts: the thread lists the documents
\* it will process, those of the index with a matched compliance and its own.
ThreadStart(t) ==
    /\ t \in threads
    /\ Cardinality(inflight) < MaxThreads
    /\ threads' = threads \ {t}
    /\ inflight' = inflight \cup
         { [ tid       |-> Cardinality(inflight) + 1,
             items     |-> all_relevant_documents_to_process(documents, t.operation_id,
                                                             t.relevance_result),
             processed |-> {},
             pending   |-> FALSE ] }
    /\ UNCHANGED <<uploads, file_operations, documents, database_data, ai_audit_data,
                   lastchecklistitemverified, document_audit_relevance, checks>>
    /\ UNCHANGED <<local, history, writers>>
    /\ UNCHANGED environment

\* The next document of a running thread, up to the duplicate check: the
\* SELECT COUNT(*) on ai_audit_data either skips the document or lets the
\* thread go on to the inserts.
ThreadCheck(w) ==
    /\ w \in inflight
    /\ w.items # <<>>
    /\ ~w.pending
    /\ LET item    == Head(w.items)
           file_op == FileOp(file_operations, item.operation_id)
       IN  inflight' = (inflight \ {w}) \cup
             { IF item.operation_id \in w.processed \/ file_op = NoResult
               THEN [w EXCEPT !.items = Tail(@)]
               ELSE IF existing_count(ai_audit_data, item.operation_id, file_op) > 0
               THEN [w EXCEPT !.items = Tail(@), !.processed = @ \cup {item.operation_id}]
               ELSE [w EXCEPT !.pending = TRUE] }
    /\ UNCHANGED <<store, local, history, writers>>
    /\ UNCHANGED environment

\* The inserts of a document that passed the duplicate check, and the
\* compliance check threads for the rows created.
ThreadInsert(w) ==
    /\ w \in inflight
    /\ w.pending
    /\ LET item     == Head(w.items)
           new_rows == InsertedRows(ai_audit_data, item)
       IN  /\ ai_audit_data' = ai_audit_data \cup new_rows
           /\ checks' = checks \cup { r.id : r \in new_rows }
           /\ inflight' = (inflight \ {w}) \cup
                { [w EXCEPT !.items = Tail(@), !.pending = FALSE,
                            !.processed = @ \cup {item.operation_id}] }
    /\ UNCHANGED <<uploads, file_operations, documents, database_data,
                   lastchecklistitemverified, document_audit_relevance, threads>>
    /\ UNCHANGED <<local, history, writers>>
    /\ UNCHANGED environment

\* The engine on two different files, its auto-processing threads running
\* beside it and beside each other.
RaceDocumentResponses ==
    { NoResult,
      [ relevance_score |-> 70, matched_policies |-> <<1>>, matched_subpolicies |-> <<1>>,
        matched_compliances |-> <<1>> ] }

InitRace ==
    /\ uploads = SubSeq(DifferentUploads, 1, 2)
    /\ Empty

NextRace ==
    \/ Upload
    \/ StartRun("background")
    \/ AnalyzeDocument(RaceDocumentResponses)
    \/ AnalyzeDatabaseRecord({NoResult})
    \/ UpdateIndex
    \/ Synthesize
    \/ Aggregate
    \/ \E t \in threads : ThreadStart(t)
    \/ \E w \in inflight : ThreadCheck(w)
    \/ \E w \in inflight : ThreadInsert(w)

SpecRace == InitRace /\ [][NextRace]_vars

\* ------------------------------------------------- index of older entries

\* A documents index written before entries carried s3_key and stored_name
\* ("old entries might not have s3_key/stored_name"): the entry of upload 1.
LegacyDocuments ==
    << [ operation_id        |-> 1,
         s3_key              |-> None,
         stored_name         |-> None,
         relevance_score     |-> 70,
         matched_policies    |-> <<1>>,
         matched_subpolicies |-> <<1>>,
         matched_compliances |-> <<1>> ] >>

\* Upload 1 is in file_operations and in the index of older entries; a
\* second file is about to be uploaded.
InitLegacy ==
    /\ uploads = SubSeq(DifferentUploads, 2, 2)
    /\ file_operations = SubSeq(DifferentUploads, 1, 1)
    /\ documents = LegacyDocuments
    /\ NoRunYet

SpecLegacy == InitLegacy /\ [][NextCases]_vars

\* ----------------------------------------------- audit that is not found

\* The audit's row becomes readable or unreadable for _get_audit_details
\* (no connection, the row gone, an exception in the query) between runs.
AuditLookup(found) ==
    /\ pc = "idle"
    /\ found # audit_found
    /\ audit_found' = found
    /\ UNCHANGED <<store, local, history, workers, index_writable, deleted, other_audit>>

NextContext ==
    \/ NextCases
    \/ \E found \in BOOLEAN : AuditLookup(found)

SpecContext == InitTrigger /\ [][NextContext]_vars

\* ------------------------------------------------------- records only

\* The engine on the database records alone (nothing is uploaded), with the
\* manual trigger in use, and a reasoning service that always answers with
\* a verdict: 0.75 for compliance 1, or 0.75 for compliance 3.
RecordVerdicts ==
    { [ relevance_score |-> 75, matched_policies |-> <<1>>, matched_subpolicies |-> <<1>>,
        matched_compliances |-> <<1>> ],
      [ relevance_score |-> 75, matched_policies |-> <<>>, matched_subpolicies |-> <<5>>,
        matched_compliances |-> <<3>> ] }

InitRecords ==
    /\ uploads = <<>>
    /\ Empty

NextRecords ==
    \/ StartRun("background")
    \/ StartRun("trigger")
    \/ AnalyzeDatabaseRecord(RecordVerdicts)
    \/ UpdateIndex
    \/ Synthesize
    \/ Aggregate

SpecRecords == InitRecords /\ [][NextRecords]_vars

\* The same with the runs going on: the upload pipeline keeps starting
\* correlation runs and a run that was started goes through its steps, so a
\* step that stays possible is taken.
FairRecords == InitRecords /\ [][NextRecords]_vars /\ WF_vars(NextRecords)

\* ------------------------------------------- index that cannot be written

\* The index directory becomes writable or unwritable between runs.
IndexStorage(writable) ==
    /\ pc = "idle"
    /\ writable # index_writable
    /\ index_writable' = writable
    /\ UNCHANGED <<store, local, history, workers, audit_found, deleted, other_audit>>

NextPersist ==
    \/ NextRecords
    \/ \E writable \in BOOLEAN : IndexStorage(writable)

SpecPersist == InitRecords /\ [][NextPersist]_vars

\* ------------------------------------------- compliance rows that go away

\* A compliance of the framework is deleted from the compliance table
\* between runs; verdicts in the index and threads not yet run may name it.
DeleteCompliance(comp_id) ==
    /\ pc = "idle"
    /\ comp_id \notin deleted
    /\ deleted' = deleted \cup {comp_id}
    /\ UNCHANGED <<store, local, history, workers, audit_found, index_writable, other_audit>>

NextMapping ==
    \/ Upload
    \/ StartRun("background")
    \/ AnalyzeDocument(RaceDocumentResponses)
    \/ AnalyzeDatabaseRecord(RecordVerdicts)
    \/ UpdateIndex
    \/ Synthesize
    \/ Aggregate
    \/ \E t \in threads : AutoProcess(t)
    \/ \E comp_id \in audit_details.compliances : DeleteCompliance(comp_id)

SpecMapping == InitTrigger /\ [][NextMapping]_vars

\* ------------------------------------------------ two audits of a framework

\* Verdicts of 0.85 and of 0.75 for compliance 1.
ChecklistVerdicts ==
    { [ relevance_score |-> 85, matched_policies |-> <<1>>, matched_subpolicies |-> <<1>>,
        matched_compliances |-> <<1>> ],
      [ relevance_score |-> 75, matched_policies |-> <<1>>, matched_subpolicies |-> <<1>>,
        matched_compliances |-> <<1>> ] }

\* One iteration of "for audit in audits" for a second audit of the same
\* framework, on the database records, as a whole: its index file and its
\* ai_audit_data rows are its own (the path and the lookups carry audit_id),
\* lastchecklistitemverified is the framework's.
OtherAuditRun(verdicts) ==
    /\ pc = "idle"
    /\ other_audit.runs < MaxRuns
    /\ \E response \in verdicts :
         LET plan     == Plan("background", other_audit.database_data, Tables)
             analyses == [ i \in 1..Len(plan) |->
                             AnalyzeRecord(plan[i].table_name, plan[i].record, response) ]
             index    == UpdateDatabaseIndex(other_audit.database_data, analyses)
             st       == SynthesizeAll([rows |-> other_audit.ai_audit_data,
                                        checklist |-> lastchecklistitemverified],
                                       Flatten(index, Tables))
         IN  /\ other_audit' =
                  [ runs          |-> other_audit.runs + 1,
                    database_data |-> index,
                    ai_audit_data |-> st.rows,
                    wrote         |-> other_audit.wrote \cup
                                      { <<e.ComplianceId, e.SubPolicyId, e.PolicyId, e.FrameworkId>>
                                        : e \in st.checklist \ lastchecklistitemverified } ]
             /\ lastchecklistitemverified' = st.checklist
    /\ UNCHANGED <<uploads, file_operations, documents, database_data, ai_audit_data,
                   document_audit_relevance, threads, checks>>
    /\ UNCHANGED <<local, history, workers, audit_found, index_writable, deleted>>

NextAudits ==
    \/ StartRun("background")
    \/ AnalyzeDatabaseRecord(ChecklistVerdicts)
    \/ UpdateIndex
    \/ Synthesize
    \/ Aggregate
    \/ OtherAuditRun(ChecklistVerdicts)

SpecAudits == InitRecords /\ [][NextAudits]_vars

\* --------------------------------------------------------------- claims

\* The upload an evidence_attachment row stands for, and its content key.
RowFileOp(r) == CHOOSE i \in 1..Len(file_operations) :
                    Plain(ToString(file_operations[i].id)) = r.external_id
RowContentKey(r) == content_key(file_operations[RowFileOp(r)])

DocumentRows == { r \in ai_audit_data : r.external_source = "evidence_attachment" }
RecordRows == { r \in ai_audit_data : r.external_source = "database_record" }

\* Every entry of the two indexes, as sets.
DocumentEntries == Range(documents)
RecordEntries == Range(Flatten(database_data, Tables))

\* C1: a correlation run that repeats a finished correlation run on the same
\* documents and records leaves the index as it found it and adds no
\* EvidenceRecord -- looked at once the run and its threads are through.
\* Only a first run whose every reasoning call gave a verdict is looked at,
\* a failed call being one that the next run is meant to repeat.
C1_Idempotent ==
    (rerun /\ pc = "idle" /\ threads = {}) =>
        /\ documents = at_start.documents
        /\ database_data = at_start.database_data
        /\ Cardinality(ai_audit_data) = at_start.rows

\* C2: in a correlation run or manual trigger the reasoning service is called
\* only for evidence whose identity the index did not hold when the run
\* started.
C2_CacheGated ==
    calls \cap IndexIdentities(at_start.documents, at_start.database_data) = {}

\* C3: uploads with the same content key hold one index entry between them
\* and at most one EvidenceRecord per compliance id.
C3_Dedup ==
    /\ \A i, j \in 1..Len(documents) :
         (content_key(documents[i]) # None
          /\ content_key(documents[i]) = content_key(documents[j])) => i = j
    /\ \A r1, r2 \in DocumentRows :
         (RowContentKey(r1) = RowContentKey(r2)
          /\ r1.mapping_compliance_id = r2.mapping_compliance_id) => r1 = r2

\* C4: every index entry, of a document or of a record, names only policies,
\* subpolicies and compliances of the audit's framework.
C4_Filtered ==
    \A e \in DocumentEntries \cup RecordEntries :
        /\ Range(e.matched_policies) \subseteq audit_details.policies
        /\ Range(e.matched_subpolicies) \subseteq audit_details.subpolicies
        /\ Range(e.matched_compliances) \subseteq audit_details.compliances

\* C5: an EvidenceRecord exists only for a verdict of score 0.6 or more.
C5_EvidenceThreshold ==
    \A r \in ai_audit_data : r.relevance_score >= evidence_threshold

\* C6: after synthesis, every record verdict of the index with score 0.8 or
\* more and a compliance id that resolves has its ChecklistEntry, keyed by
\* (compliance_id, subpolicy_id, policy_id, framework_id).
C6_ChecklistUpserted ==
    (kind = "background" /\ pc \in {"aggregate", "idle"}) =>
        \A a \in RecordEntries :
            LET comp_id  == ResolveCompId(a.table_name, a.record_id, a.matched_compliances)
                comp_row == IF Truthy(comp_id) THEN ComplianceRow(comp_id) ELSE NoResult
            IN  (Truthy(a.record_id) /\ a.relevance_score >= checklist_threshold
                 /\ comp_row # NoResult) =>
                    \E e \in lastchecklistitemverified :
                        /\ e.ComplianceId = comp_row.ComplianceId
                        /\ e.SubPolicyId = comp_row.SubPolicyId
                        /\ e.PolicyId = comp_row.PolicyId
                        /\ e.FrameworkId = framework_id

\* C7: no EvidenceRecord comes from a verdict whose matched_compliances is
\* empty, be it the verdict of a document or of a record.
C7_NoUnmappedEvidence ==
    \A r \in ai_audit_data : r.matched_compliances # <<>>

\* The evidence kinds that cleared the evidence threshold in the index.
ExpectedClass ==
    LET doc == \E e \in DocumentEntries : e.relevance_score >= evidence_threshold
        rec == \E e \in RecordEntries : e.relevance_score >= evidence_threshold
    IN  IF doc /\ rec THEN "combined"
        ELSE IF doc THEN "document_only"
        ELSE IF rec THEN "database_only"
        ELSE "none"

\* C8: the overall_score of a finished run is the largest score of the
\* audit's index, documents and records, as analysis left it.
C8_OverallIsMax ==
    (aggregated /\ pc = "idle") =>
        overall_score = OverallScore(documents, database_data)

\* C9: the class of a finished run is the one given by the evidence kinds
\* that have a verdict of 0.6 or more.  Only a run that indexed no document
\* is looked at, so that the documents it aggregates over are those of the
\* index.
C9_ClassByThreshold ==
    (aggregated /\ pc = "idle" /\ docs_index = documents) =>
        classification = ExpectedClass

\* C10: a run that started an auto-processing thread has an overall_score
\* of 0.6 or more.
C10_DispatchGated ==
    (aggregated /\ dispatched # {}) => overall_score >= evidence_threshold

\* The key of a checklist entry, the resolved compliance of a record verdict,
\* and whether the verdict qualifies for the checklist.
ChecklistKey(e) == <<e.ComplianceId, e.SubPolicyId, e.PolicyId, e.FrameworkId>>
VerdictCompliance(a) ==
    LET comp_id == ResolveCompId(a.table_name, a.record_id, a.matched_compliances)
    IN  IF Truthy(comp_id) THEN ComplianceRow(comp_id) ELSE NoResult
Qualifies(a) ==
    /\ Truthy(a.record_id)
    /\ a.relevance_score >= checklist_threshold
    /\ VerdictCompliance(a) # NoResult
VerdictKey(a) ==
    <<VerdictCompliance(a).ComplianceId, VerdictCompliance(a).SubPolicyId,
      VerdictCompliance(a).PolicyId, framework_id>>
CountOf(checklist, k) ==
    IF \E e \in checklist : ChecklistKey(e) = k
    THEN (CHOOSE e \in checklist : ChecklistKey(e) = k).Count
    ELSE 0

\* C16: a synthesis step raises the Count of every checklist key by the
\* number of qualifying record verdicts (score 0.8 or more, compliance id
\* resolved) with that key among the verdicts it processes: 1 for the
\* insert, 1 more for each later verdict.  Keys of the audit's framework
\* are looked at.
C16_UpsertCounts ==
    [][ (pc = "synthesize" /\ pc' = "aggregate") =>
          LET processed == Flatten(full_db_results, Tables)
              keys == { VerdictKey(processed[i]) :
                          i \in { j \in 1..Len(processed) : Qualifies(processed[j]) } }
          IN  \A k \in { x \in keys : x[1] \in audit_details.compliances } :
                CountOf(lastchecklistitemverified', k) =
                    CountOf(lastchecklistitemverified, k)
                    + Cardinality({ i \in 1..Len(processed) :
                                      /\ Qualifies(processed[i])
                                      /\ VerdictKey(processed[i]) = k }) ]_vars

\* C17: every ChecklistEntry carries the "partially compliant" value '1' in
\* Complied, after its insert and after every update.
C17_PartiallyCompliant ==
    \A e \in lastchecklistitemverified : e.Complied = "1"

\* Reached for C17: an entry that was inserted and then updated.
C17_Updated ==
    \E e \in lastchecklistitemverified : e.Count >= 2 /\ e.Complied = "1"

\* C18: a step that analyzes, indexes or stores a document verdict, or that
\* auto-processes one into EvidenceRecords, leaves the checklist as it is;
\* the checklist changes only in the synthesis of record verdicts, and every
\* entry that step writes is commented with a qualifying record verdict.
C18_DocumentsLeaveChecklist ==
    [][ /\ ( \/ documents' # documents
             \/ document_audit_relevance' # document_audit_relevance
             \/ threads' # threads
             \/ DocumentRows' # DocumentRows )
           => lastchecklistitemverified' = lastchecklistitemverified
        /\ lastchecklistitemverified' # lastchecklistitemverified
           => /\ pc = "synthesize"
              /\ \A e \in lastchecklistitemverified' \ lastchecklistitemverified :
                   \E a \in Range(Flatten(full_db_results, Tables)) :
                      /\ Qualifies(a)
                      /\ e.Comments = RecordKey(a.table_name, a.record_id) ]_vars

\* Reached for C18: a document verdict of 0.8 or more with a matched
\* compliance was indexed, stored and auto-processed into an EvidenceRecord,
\* and the checklist is still empty.
C18_DocumentProcessed ==
    /\ \E d \in DocumentEntries :
         d.relevance_score >= checklist_threshold /\ d.matched_compliances # <<>>
    /\ \E r \in DocumentRows :
         r.relevance_score >= checklist_threshold /\ Truthy(r.mapping_compliance_id)
    /\ document_audit_relevance # {}
    /\ dispatched # {}
    /\ threads = {}
    /\ lastchecklistitemverified = {}

\* C11: when the index holds one document verdict of 0.7 and one record
\* verdict of 0.75, a finished run whose threads have ended has
\* overall_score 0.75 and class "combined", and exactly one compliance
\* check was started, for an EvidenceRecord of the higher-scoring evidence.
\* Only a run that indexed no document is looked at (see C9).
C11_Scenario ==
    ( /\ aggregated /\ pc = "idle" /\ threads = {}
      /\ docs_index = documents
      /\ Len(documents) = 1
      /\ \A d \in DocumentEntries : d.relevance_score = 70
      /\ Len(Flatten(database_data, Tables)) = 1
      /\ \A a \in RecordEntries : a.relevance_score = 75 )
    => /\ overall_score = 75
       /\ classification = "combined"
       /\ Cardinality(checks) = 1
       /\ \A c \in checks : \E r \in ai_audit_data :
             r.id = c /\ r.relevance_score = overall_score

\* C12: between runs, with no thread left, no two EvidenceRecords stand for
\* the same piece of evidence: the same content key for documents, the
\* same table:record_id for records.
C12_OnePerEvidence ==
    (pc = "idle" /\ threads = {}) =>
        /\ \A r1, r2 \in DocumentRows : RowContentKey(r1) = RowContentKey(r2) => r1 = r2
        /\ \A r1, r2 \in RecordRows : r1.external_id = r2.external_id => r1 = r2

\* C19: a run that has ended has analyzed every candidate it set out to
\* analyze: no record is left over because the analysis of another failed.
C19_SiblingsAnalyzed ==
    pc = "idle" => todo = <<>>

\* C20: evidence whose reasoning call gave no usable answer in this run
\* (no answer, or an answer that cannot be parsed) has no entry in the index.
C20_FailureNotIndexed ==
    unanalyzed \cap IndexIdentities(documents, database_data) = {}

\* C14: no step takes an evidence identity out of the index: the identities
\* that have an entry before a step have one after it.
C14_IndexGrows ==
    [][ IndexIdentities(documents, database_data)
          \subseteq IndexIdentities(documents', database_data') ]_vars

\* C15: once every upsert that was begun has written the index file, the
\* index holds the entry of each of them.
C15_NoLostUpdate ==
    (\A w \in writers : w.saved) =>
        \A w \in writers :
            DocumentIdentity(Or(w.doc_s3_key, w.doc_stored_name), w.operation_id)
                \in IndexIdentities(documents, database_data)

\* C13: no two EvidenceRecords of the audit have the same provenance
\* (external_source and external_id) and the same compliance id.
C13_OncePerCompliance ==
    \A r1, r2 \in ai_audit_data :
        ( /\ r1.external_source = r2.external_source
          /\ r1.external_id = r2.external_id
          /\ r1.mapping_compliance_id = r2.mapping_compliance_id ) => r1 = r2

\* C29: an upsert of a document's verdict leaves the index entries of every
\* other content key as they were: an entry whose content key differs from
\* the analysed document's is in the index after the step, unchanged.
C29_UpsertFrame ==
    [][ (pc = "analyze" /\ doc_pos <= Len(all_documents) /\ doc_pos' = doc_pos + 1) =>
          \A i \in 1..Len(documents) :
              content_key(documents[i]) # content_key(all_documents[doc_pos]) =>
                  \E j \in 1..Len(documents') : documents'[j] = documents[i] ]_vars

\* The index entry that stands for a record verdict.
VerdictEntry(a) ==
    [ table_name          |-> a.table_name,
      record_id           |-> a.record_id,
      relevance_score     |-> a.relevance_score,
      matched_policies    |-> a.matched_policies,
      matched_subpolicies |-> a.matched_subpolicies,
      matched_compliances |-> a.matched_compliances ]

\* C24: when the verdicts of a run have been upserted, the index read back
\* has an entry for each of their records and every entry of that record is
\* the verdict (an earlier verdict of the record is replaced); and the
\* indexes loaded by the first run, when nothing was persisted, are empty.
C24_RoundTrip ==
    [][ /\ (pc = "analyze" /\ doc_pos > Len(all_documents) /\ todo = <<>> /\ pc' # "analyze") =>
            \A k \in 1..Len(db_results) :
                LET a == db_results[k]
                    entries == { e \in Range(database_data'[a.table_name]) :
                                 e.record_id = a.record_id }
                IN  Truthy(a.record_id) => entries = { VerdictEntry(a) }
        /\ (pc = "idle" /\ pc' = "analyze" /\ runs + triggers = 0) =>
            /\ at_start'.documents = EmptyDocuments
            /\ at_start'.database_data = EmptyDatabase
            /\ todo' = Plan(kind', EmptyDatabase, Tables) ]_vars

\* C23: synthesis leaves every field that has a value on an existing
\* EvidenceRecord as it is -- it may fill in a policy or subpolicy that is
\* missing and nothing else -- and adds no second row for its provenance.
C23_BackfillOnly ==
    [][ (pc = "synthesize" /\ pc' = "aggregate") =>
          \A r \in ai_audit_data :
              /\ \E q \in ai_audit_data' :
                    /\ q.id = r.id
                    /\ Truthy(r.policy_id) => q.policy_id = r.policy_id
                    /\ Truthy(r.subpolicy_id) => q.subpolicy_id = r.subpolicy_id
                    /\ [q EXCEPT !.policy_id = r.policy_id, !.subpolicy_id = r.subpolicy_id] = r
              /\ \A q1, q2 \in ai_audit_data' :
                    ( /\ q1.external_source = r.external_source
                      /\ q2.external_source = r.external_source
                      /\ q1.external_id = r.external_id
                      /\ q2.external_id = r.external_id ) => q1 = q2 ]_vars

\* Every record of every table that has a primary key has an index entry.
AllRecordsIndexed ==
    \A t \in Range(Tables) :
        \A i \in 1..Len(all_database_data[t]) :
            LET record_id == _get_db_record_id(t, all_database_data[t][i])
            IN  record_id # NoId => record_id \in seen_ids(database_data, t)

\* C30: with a reasoning service that always gives a verdict, repeated runs
\* reach a point from which every record with a primary key has an index
\* entry, more records per table than one run analyses notwithstanding; and
\* a correlation run then has no record to hand to the reasoning service.
C30_EventualCoverage ==
    /\ <>[]AllRecordsIndexed
    /\ [](AllRecordsIndexed /\ kind = "background" => todo = <<>>)

\* C30 happens: a correlation run was started with every record indexed and
\* is in its analysis phase without a call made.
C30_CoveredRun ==
    /\ AllRecordsIndexed
    /\ kind = "background" /\ pc = "analyze"
    /\ at_start.database_data = database_data
    /\ calls = {}

\* C22: a document that has a content key which the index loaded by the run
\* does not hold is handed to the reasoning service, whether or not its
\* operation id appears in the index.
C22_ContentKeyFirst ==
    [][ (/\ pc = "analyze" /\ kind = "background"
         /\ doc_pos <= Len(all_documents) /\ doc_pos' = doc_pos + 1
         /\ content_key(all_documents[doc_pos]) # None
         /\ content_key(all_documents[doc_pos]) \notin analyzed_file_keys(docs_index)) =>
          DocumentIdentity(content_key(all_documents[doc_pos]), all_documents[doc_pos].id)
              \in calls' ]_vars

\* C27: while the audit's details cannot be loaded, no step of a run hands
\* evidence to the reasoning service, writes an index entry, or creates an
\* EvidenceRecord or a ChecklistEntry (steps of threads left by earlier runs
\* aside).
C27_ContextNotFound ==
    [][ (~audit_found /\ audit_found' = audit_found) =>
          /\ calls' \subseteq calls
          /\ documents' = documents
          /\ database_data' = database_data
          /\ lastchecklistitemverified' = lastchecklistitemverified
          /\ threads' = threads => ai_audit_data' = ai_audit_data ]_vars

\* C28: a run that has not finished its analysis, synthesis and aggregation
\* has dispatched nothing: no auto-processing thread (which is what creates
\* the EvidenceRecords of a document and starts their verification) has
\* been started by the run before AGGREGATE.
C28_RunOrdering ==
    pc \in {"analyze", "synthesize", "aggregate"} => dispatched = {}

\* C25: a correlation run whose write of the verdicts to the index fails
\* ends there: it does not go on to synthesis as if the index had been
\* written.
C25_WriteFailureEndsRun ==
    [][ (/\ ~index_writable
         /\ kind = "background" /\ pc = "analyze"
         /\ doc_pos > Len(all_documents) /\ todo = <<>>
         /\ \E k \in 1..Len(db_results) : Truthy(db_results[k].record_id)) =>
          pc' # "synthesize" ]_vars

\* C26: no EvidenceRecord is created for a compliance id that does not
\* resolve to a row of the compliance table, for records and for documents:
\* every row a step adds that names a compliance names one that resolves.
C26_MappingUnresolved ==
    [][ \A r \in ai_audit_data' \ ai_audit_data :
            Truthy(r.mapping_compliance_id) =>
                ComplianceRow(r.mapping_compliance_id) # NoResult ]_vars

====
